---- MODULE Spec2Model ----
(***************************************************************************)
(* NedaraJS 0.1.3-alpha: the template store (templateDoc, importTemplates),*)
(* the render pipeline of renderTemplate, and the event bindings of the    *)
(* widgets of createWidget.                                                *)
(*                                                                         *)
(* Text is a sequence of lexical units.  A unit is either one atom of      *)
(* plain text (no brace in it) or one whole marker:                        *)
(*   {{a.b}}        "var"   p = <<"a","b">>   ({{else}}, {{subelse}} are   *)
(*                          the "var" units of path <<"else">>,            *)
(*                          <<"subelse">>: the variable regex matches them)*)
(*   {{#a.b}}       "open"  p = <<"a","b">>                                *)
(*   {{/a.b}}       "close" p = <<"a","b">>   ({{/if}} and {{/subif}} are  *)
(*                          the "close" units of <<"if">>, <<"subif">>)    *)
(*   {{#if E}}      "if"    s = form of E, p = the identifier of E         *)
(*   {{#subif E}}   "subif" likewise                                       *)
(* JavaScript values are records [k, v], k the type tag.                   *)
(***************************************************************************)
EXTENDS Integers, Sequences, FiniteSets, TLC

VARIABLES
    templateDoc,  \* the parsed document of the store, NoDoc for null
    pending,      \* the URLs of the importTemplates calls in flight
    last,         \* the last call of renderTemplate
    completed,    \* the URLs whose import assigned templateDoc, in that order
    issued,       \* the URLs of the importTemplates calls made, in call order
    rendered,     \* a text under the tag-escape rewrite of line 197
    widget,       \* the widget returned by createWidget
    listeners,    \* the handlers attached to the container, in binding order
    fired         \* the last event dispatched and the handler calls it made

storeVars == <<templateDoc, pending, last, completed, issued>>

widgetVars == <<widget, listeners, fired>>

vars ==
    <<templateDoc, pending, last, completed, issued, rendered, widget, listeners, fired>>

(* ------------------------------ bounds -------------------------------- *)

MaxPending == 2

(* Imports issued in one behaviour. *)
MaxImports == 3

(* Applications of the tag-escape rewrite to one text, longest such text. *)
MaxPasses == 2

MaxText == 5

(* Calls of refresh() on one widget. *)
MaxRefresh == 2

(* Longest template of the variable family, longest loop body. *)
MaxLen == 3

MaxBody == 2

(* Longest array of the loop families. *)
MaxItems == 2

(* Longest outer array of the nested-loop family. *)
MaxCats == 2

(* ------------------------------ text ---------------------------------- *)

Txt(s) == [t |-> "txt", p |-> <<>>, s |-> s]

Var(p) == [t |-> "var", p |-> p, s |-> ""]

Open(p) == [t |-> "open", p |-> p, s |-> ""]

Close(p) == [t |-> "close", p |-> p, s |-> ""]

IfOpen(form, p) == [t |-> "if", p |-> p, s |-> form]

SubIfOpen(form, p) == [t |-> "subif", p |-> p, s |-> form]

ElseTok == Var(<<"else">>)

SubElseTok == Var(<<"subelse">>)

IfClose == Close(<<"if">>)

SubIfClose == Close(<<"subif">>)

WS == Txt(" ")

(* The unit standing for "the callback raised": it never occurs in input. *)
Exc == [t |-> "exc", p |-> <<>>, s |-> ""]

Raise == <<Exc>>

Threw(x) == \E i \in 1..Len(x) : x[i].t = "exc"

Prop(x) == IF Threw(x) THEN Raise ELSE x

Min(S) == CHOOSE m \in S : \A n \in S : m <= n

RECURSIVE Concat(_)
Concat(ss) == IF ss = <<>> THEN <<>> ELSE Head(ss) \o Concat(Tail(ss))

IsWs(tok) == tok.t = "txt" /\ tok.s = " "

(* String.prototype.trim *)
RECURSIVE TrimLeft(_)
TrimLeft(x) == IF x # <<>> /\ IsWs(Head(x)) THEN TrimLeft(Tail(x)) ELSE x

RECURSIVE TrimRight(_)
TrimRight(x) ==
    IF x # <<>> /\ IsWs(x[Len(x)]) THEN TrimRight(SubSeq(x, 1, Len(x) - 1)) ELSE x

Trim(x) == TrimRight(TrimLeft(x))

(* First index j > i with content[j] = tok, 0 when there is none. *)
IndexAfter(content, i, tok) ==
    LET S == {j \in (i + 1)..Len(content) : content[j] = tok}
    IN IF S = {} THEN 0 ELSE Min(S)

(* String.prototype.split(sep) for a separator that is one unit. *)
RECURSIVE Split(_, _)
Split(x, sep) ==
    LET j == IndexAfter(x, 0, sep)
    IN IF j = 0 THEN <<x>>
       ELSE <<SubSeq(x, 1, j - 1)>> \o Split(SubSeq(x, j + 1, Len(x)), sep)

Includes(x, tok) == IndexAfter(x, 0, tok) # 0

(* ------------------------------ values -------------------------------- *)

Undefined == [k |-> "undef", v |-> 0]

Null == [k |-> "null", v |-> 0]

Bool(b) == [k |-> "bool", v |-> b]

Num(n) == [k |-> "num", v |-> n]

Str(s) == [k |-> "str", v |-> s]

Arr(a) == [k |-> "arr", v |-> a]

Obj(f) == [k |-> "obj", v |-> f]

EmptyObj == Obj(<<>>)

NumAtom(n) == ToString(n)

(* String(val), the conversion String.prototype.replace applies to what a *)
(* callback returns; Array.prototype.join renders null and undefined as ""*)
RECURSIVE ToStr(_)
ToStr(val) ==
    CASE val.k = "undef" -> <<Txt("undefined")>>
      [] val.k = "null" -> <<Txt("null")>>
      [] val.k = "bool" -> <<Txt(IF val.v THEN "true" ELSE "false")>>
      [] val.k = "num" -> <<Txt(NumAtom(val.v))>>
      [] val.k = "str" -> val.v
      [] val.k = "arr" ->
            Concat([i \in 1..Len(val.v) |->
                (IF i > 1 THEN <<Txt(",")>> ELSE <<>>)
                \o (IF val.v[i].k \in {"null", "undef"} THEN <<>> ELSE ToStr(val.v[i]))])
      [] val.k = "obj" -> <<Txt("[object Object]")>>

(* acc && typeof acc === "object" && key in acc ? acc[key] : undefined     *)
(* An array has its "length" and its indices ("0" is modelled).           *)
Lookup(acc, key) ==
    CASE acc.k = "obj" -> IF key \in DOMAIN acc.v THEN acc.v[key] ELSE Undefined
      [] acc.k = "arr" ->
            IF key = "length" THEN Num(Len(acc.v))
            ELSE IF key = "0" /\ Len(acc.v) > 0 THEN acc.v[1]
            ELSE Undefined
      [] OTHER -> Undefined

RECURSIVE getValueFromPath(_, _)
getValueFromPath(obj, path) ==
    IF path = <<>> THEN obj
    ELSE getValueFromPath(Lookup(obj, Head(path)), Tail(path))

(* ----------------------- evaluateExpression --------------------------- *)

(* Names bound in the global scope of the page the library runs in: the   *)
(* library itself reads `document` as a global.                           *)
Globals == {"document"}

(* The numerals: every number of this model has one digit. *)
NumAtoms == {NumAtom(n) : n \in 0..9}

(* Value of one comma-free piece of JavaScript source text made of text   *)
(* atoms, as Function("return (...)") computes it: "T" a truthy value,    *)
(* "F" a falsy value, "X" a SyntaxError or a ReferenceError.  The atoms   *)
(* of this model other than numerals, literals and global names are words *)
(* bound nowhere or punctuation that makes no expression.                 *)
SegValue(seg) ==
    LET x == Trim(seg) IN
    IF x = <<>> \/ \E i \in 1..Len(x) : x[i].t # "txt" THEN "X"
    ELSE IF Len(x) = 1 THEN
        CASE x[1].s \in NumAtoms -> IF x[1].s = NumAtom(0) THEN "F" ELSE "T"
          [] x[1].s = "true" -> "T"
          [] x[1].s \in {"false", "null", "undefined"} -> "F"
          [] x[1].s \in Globals -> "T"
          [] OTHER -> "X"
    ELSE IF (\A i \in 1..Len(x) : x[i].s \in NumAtoms) /\ x[1].s # NumAtom(0) THEN "T"
    ELSE "X"

(* The comma operator evaluates every operand and yields the last one.    *)
EvalText(text) ==
    LET segs == Split(text, Txt(","))
        vals == [i \in 1..Len(segs) |-> SegValue(segs[i])]
    IN IF \E i \in 1..Len(segs) : vals[i] = "X" THEN "X" ELSE vals[Len(segs)]

(* The text an unresolved identifier a.b.c is left as.  The first key of  *)
(* every path of this model is a word; a member of a global is undefined. *)
EvalIdent(p) == IF Len(p) = 1 THEN SegValue(<<Txt(p[1])>>) ELSE "X"

(* Truthiness of what evaluateExpression returns; the catch returns false.*)
(* form "id": the expression is the single identifier p.                  *)
(* form "bad": p followed by a dangling operator, a SyntaxError whatever  *)
(* p is replaced by.                                                      *)
evaluateExpression(form, p, context) ==
    LET val == getValueFromPath(context, p) IN
    IF form # "id" THEN FALSE
    ELSE IF val.k = "undef" THEN EvalIdent(p) = "T"
    ELSE IF val.k = "str" THEN val.v # <<>>
    ELSE EvalText(ToStr(val)) = "T"

(* --------------------------- render passes ---------------------------- *)

(* The callback of the {{#if E}}...{{/if}} and {{#subif E}}...{{/subif}}  *)
(* replacements: innerProcessed is cut at the else marker; splitting a    *)
(* text without the marker leaves [1] undefined and .trim() raises.       *)
Branch(conditionValue, inner, innerProcessed, elseTok) ==
    LET parts == Split(innerProcessed, elseTok) IN
    IF conditionValue THEN Trim(parts[1])
    ELSE IF Includes(inner, elseTok)
         THEN (IF Len(parts) >= 2 THEN Trim(parts[2]) ELSE Raise)
         ELSE <<>>

(* content.replace(/\{\{#if (.+?)\}\}([\s\S]*?)\{\{\/if\}\}/gm, cb): scan *)
(* from unit i; a block runs from an "if" unit to the first {{/if}} after *)
(* it, and the text put in its place is not scanned again.                *)
RECURSIVE processConditionals(_, _)
RECURSIVE CondScan(_, _, _)
CondScan(content, context, i) ==
    IF i > Len(content) THEN <<>>
    ELSE LET j == IndexAfter(content, i, IfClose) IN
         IF content[i].t = "if" /\ j # 0
         THEN LET inner == SubSeq(content, i + 1, j - 1)
                  conditionValue == evaluateExpression(content[i].s, content[i].p, context)
                  innerProcessed == processConditionals(inner, context)
              IN Branch(conditionValue, inner, innerProcessed, ElseTok)
                 \o CondScan(content, context, j + 1)
         ELSE <<content[i]>> \o CondScan(content, context, i + 1)

(* A pass is not run once an earlier statement has raised. *)
processConditionals(content, context) ==
    IF Threw(content) THEN Raise ELSE Prop(CondScan(content, context, 1))

RECURSIVE SubCondScan(_, _, _)
RECURSIVE SubCondScanElse(_, _, _)
(* A sub-conditional cut at {{else}}, the marker of the other vocabulary. *)
SubCondScanElse(content, context, i) ==
    IF i > Len(content) THEN <<>>
    ELSE LET j == IndexAfter(content, i, SubIfClose) IN
         IF content[i].t = "subif" /\ j # 0
         THEN Branch(evaluateExpression(content[i].s, content[i].p, context),
                     SubSeq(content, i + 1, j - 1),
                     processConditionals(SubSeq(content, i + 1, j - 1), context), ElseTok)
              \o SubCondScanElse(content, context, j + 1)
         ELSE <<content[i]>> \o SubCondScanElse(content, context, i + 1)

SubCondScan(content, context, i) ==
    IF i > Len(content) THEN <<>>
    ELSE LET j == IndexAfter(content, i, SubIfClose) IN
         IF content[i].t = "subif" /\ j # 0
         THEN LET inner == SubSeq(content, i + 1, j - 1)
                  conditionValue == evaluateExpression(content[i].s, content[i].p, context)
                  innerProcessed == processConditionals(inner, context)
              IN Branch(conditionValue, inner, innerProcessed, SubElseTok)
                 \o SubCondScan(content, context, j + 1)
         ELSE <<content[i]>> \o SubCondScan(content, context, i + 1)

processSubConditionals(content, context) ==
    IF Threw(content) THEN Raise ELSE Prop(SubCondScan(content, context, 1))

(* val !== undefined ? val : m written as val ? val : m: a falsy value   *)
(* is treated as missing.                                                 *)
SubstVarTruthy(tok, context) ==
    LET val == getValueFromPath(context, tok.p) IN
    IF tok.t = "var" /\ val.k # "undef" /\ val \notin {Num(0), Bool(FALSE), Null, Str(<<>>)}
    THEN ToStr(val) ELSE <<tok>>

(* An unresolved variable rendered as nothing instead of being kept. *)
SubstVarBlank(tok, context) ==
    LET val == getValueFromPath(context, tok.p) IN
    IF tok.t # "var" THEN <<tok>>
    ELSE IF val.k # "undef" THEN ToStr(val) ELSE <<>>

(* The callback (m, variable) => val !== undefined ? val : m of the       *)
(* variable replacements, applied to one unit: every "var" unit matches   *)
(* /\{\{([\w.]+)\}\}/, {{else}} and {{subelse}} too.                      *)
SubstVar(tok, context) ==
    LET val == getValueFromPath(context, tok.p) IN
    IF tok.t = "var" /\ val.k # "undef" THEN ToStr(val) ELSE <<tok>>

replaceVariables(content, context) ==
    Concat([i \in 1..Len(content) |-> SubstVar(content[i], context)])

(* array.map(item => ...): conditionals, sub-conditionals and variables   *)
(* of the whole section against item, then the loops nested in it.        *)
RECURSIVE processNestedLoops(_, _)
(* The callback without its last step, the loops nested in the section. *)
LoopItemFlat(section, item) ==
    replaceVariables(processSubConditionals(processConditionals(section, item), item), item)

LoopItem(section, item) ==
    processNestedLoops(
        replaceVariables(
            processSubConditionals(processConditionals(section, item), item), item), item)

(* .join() with its default separator. *)
joinItemsComma(parts) ==
    Concat([i \in 1..Len(parts) |-> (IF i > 1 THEN <<Txt(",")>> ELSE <<>>) \o parts[i]])

(* .join("") *)
joinItems(parts) == Concat(parts)

(* The section rendered once for a value that is not an array. *)
loopCallbackAnyValue(key, section, context) ==
    LET array == getValueFromPath(context, key) IN
    IF array.k \in {"undef", "null"} THEN <<>>
    ELSE IF array.k # "arr" THEN LoopItem(section, array)
    ELSE joinItems([n \in 1..Len(array.v) |-> LoopItem(section, array.v[n])])

(* The callback (match, key, section) => ... of processNestedLoops. *)
loopCallback(key, section, context) ==
    LET array == getValueFromPath(context, key) IN
    IF array.k # "arr" THEN <<>>
    ELSE joinItems([n \in 1..Len(array.v) |-> LoopItem(section, array.v[n])])

(* content.replace(/\{\{#([\w.]+)\}\}([\s\S]*?)\{\{\/\1\}\}/gm, cb): a    *)
(* block runs from an "open" unit to the first "close" unit of the same   *)
(* key after it.                                                          *)
RECURSIVE LoopScan(_, _, _)
RECURSIVE LoopScanAnyClose(_, _, _)
(* The regex without its back-reference: a block runs to the first close  *)
(* marker of any key.                                                     *)
LoopScanAnyClose(content, context, i) ==
    IF i > Len(content) THEN <<>>
    ELSE LET S == {n \in (i + 1)..Len(content) : content[n].t = "close"} IN
         IF content[i].t = "open" /\ S # {}
         THEN loopCallback(content[i].p, SubSeq(content, i + 1, Min(S) - 1), context)
              \o LoopScanAnyClose(content, context, Min(S) + 1)
         ELSE <<content[i]>> \o LoopScanAnyClose(content, context, i + 1)

LoopScan(content, context, i) ==
    IF i > Len(content) THEN <<>>
    ELSE LET j == IF content[i].t = "open"
                  THEN IndexAfter(content, i, Close(content[i].p)) ELSE 0 IN
         IF j # 0
         THEN loopCallback(content[i].p, SubSeq(content, i + 1, j - 1), context)
              \o LoopScan(content, context, j + 1)
         ELSE <<content[i]>> \o LoopScan(content, context, i + 1)

processNestedLoops(content, context) ==
    IF Threw(content) THEN Raise ELSE Prop(LoopScan(content, context, 1))

(* The fourth pass of renderTemplate: the conditional replacement again,  *)
(* its callback splitting the section itself.                             *)
RECURSIVE GlobalCondScan(_, _, _)
GlobalCondScan(content, data, i) ==
    IF i > Len(content) THEN <<>>
    ELSE LET j == IndexAfter(content, i, IfClose) IN
         IF content[i].t = "if" /\ j # 0
         THEN LET section == SubSeq(content, i + 1, j - 1)
                  conditionResult == evaluateExpression(content[i].s, content[i].p, data)
              IN Branch(conditionResult, section, section, ElseTok)
                 \o GlobalCondScan(content, data, j + 1)
         ELSE <<content[i]>> \o GlobalCondScan(content, data, i + 1)

globalConditionals(content, data) ==
    IF Threw(content) THEN Raise ELSE Prop(GlobalCondScan(content, data, 1))

(* rendered.replace(/nedara-(\w+)/g, "$1").  The atoms of this model are  *)
(* words and numerals, the atom "nedara-", and the punctuation atoms " ", *)
(* ",", ":" and "[object Object]".  A "nedara-" atom followed by a word   *)
(* character is dropped; \w+ then takes the word atoms after it, which    *)
(* are copied without being scanned, up to and including a "nedara-" atom *)
(* (whose "nedara" it takes and whose "-" stops it).                      *)
NonWordAtoms == {" ", ",", ":", "[object Object]"}

StartsWord(tok) == tok.t = "txt" /\ tok.s \notin NonWordAtoms

Prefix == Txt("nedara-")

RECURSIVE unescapeTags(_)
RECURSIVE CopyWord(_)
RECURSIVE unescapeTagsOnce(_)
CopyWord(x) ==
    IF x = <<>> \/ ~StartsWord(Head(x)) THEN unescapeTags(x)
    ELSE IF Head(x) = Prefix THEN <<Head(x)>> \o unescapeTags(Tail(x))
    ELSE <<Head(x)>> \o CopyWord(Tail(x))

(* The rewrite without its g flag: the first match only. *)
unescapeTagsOnce(x) ==
    IF x = <<>> THEN <<>>
    ELSE IF Head(x) = Prefix /\ Len(x) >= 2 /\ StartsWord(x[2]) THEN Tail(x)
    ELSE <<Head(x)>> \o unescapeTagsOnce(Tail(x))

unescapeTags(x) ==
    IF x = <<>> THEN <<>>
    ELSE IF Head(x) = Prefix /\ Len(x) >= 2 /\ StartsWord(x[2])
         THEN CopyWord(Tail(x))
         ELSE <<Head(x)>> \o unescapeTags(Tail(x))

(* --------------------------- template store --------------------------- *)

(* templateDoc: null, or the parsed document, as the innerHTML of each of *)
(* its elements that carries an id.                                       *)
NoDoc == [loaded |-> FALSE, els |-> <<>>]

Doc(els) == [loaded |-> TRUE, els |-> els]

(* template.innerHTML returned as it is stored. *)
_getTemplateUntrimmed(id) ==
    IF ~templateDoc.loaded THEN [found |-> FALSE, text |-> <<>>]
    ELSE IF id \notin DOMAIN templateDoc.els THEN [found |-> FALSE, text |-> <<>>]
    ELSE [found |-> TRUE, text |-> templateDoc.els[id]]

_getTemplate(id) ==
    IF ~templateDoc.loaded THEN [found |-> FALSE, text |-> <<>>]
    ELSE IF id \notin DOMAIN templateDoc.els THEN [found |-> FALSE, text |-> <<>>]
    ELSE [found |-> TRUE, text |-> Trim(templateDoc.els[id])]

(* Lines 172-199: the passes over templateContent, in order; Raise when  *)
(* one of them raises.                                                    *)
renderPasses(templateContent, data) ==
    Prop(unescapeTags(
        replaceVariables(
            globalConditionals(
                processSubConditionals(
                    processConditionals(
                        processNestedLoops(templateContent, data), data), data), data), data)))

(* A renderTemplate that goes on with a template it did not find: the    *)
(* first pass then calls replace on null.                                 *)
renderTemplateNoGuard(id, data) ==
    LET templateContent == _getTemplate(id) IN
    IF ~templateContent.found THEN Raise
    ELSE renderPasses(templateContent.text, data)

(* What renderTemplate(id, data) returns, or Raise when it raises. *)
renderTemplate(id, data) ==
    LET templateContent == _getTemplate(id) IN
    IF ~templateContent.found \/ templateContent.text = <<>> THEN <<>>
    ELSE renderPasses(templateContent.text, data)

(* ------------------------------ actions ------------------------------- *)

(* The documents behind the URLs of the store specification. *)
Urls == {"a.html", "b.html"}

Documents(url) ==
    IF url = "a.html"
    THEN [greeting |-> <<WS, Txt("Hi"), WS, Var(<<"name">>), WS>>,
          list |-> <<Open(<<"items">>), Var(<<"name">>), Txt(":"), Close(<<"items">>)>>]
    ELSE [greeting |-> <<IfOpen("id", <<"flag">>), Txt("Y"), ElseTok, Txt("N"), IfClose>>,
          blank |-> <<WS>>]

Ids == {"greeting", "list", "blank", "missing"}

StoreData ==
    {EmptyObj,
     Obj([name |-> Str(<<Txt("Ann")>>), flag |-> Bool(TRUE),
          items |-> Arr(<<Obj([name |-> Str(<<Txt("a")>>)])>>)])}

(* The last call of renderTemplate: its arguments, the store it read, the *)
(* value of `rendered` after the loop pass, and what it returned.         *)
NoCall ==
    [called |-> FALSE, id |-> "", data |-> EmptyObj, doc |-> NoDoc,
     loops |-> <<>>, threw |-> FALSE, out |-> <<>>]

Remove(q, i) == SubSeq(q, 1, i - 1) \o SubSeq(q, i + 1, Len(q))

(* No text under rewrite, no widget created, no event dispatched. *)
NoText == [src |-> <<>>, text |-> <<>>, passes |-> 0]

NoWidget == [state |-> "none", selector |-> "", events |-> {}, methods |-> {}, refreshes |-> 0]

NoEvent == [key |-> <<>>, calls |-> 0, state |-> "none", refreshes |-> 0]

Idle == rendered = NoText /\ widget = NoWidget /\ listeners = <<>> /\ fired = NoEvent

(* importTemplates(url) up to its first await: the fetch is issued. *)
ImportTemplates(url) ==
    /\ Len(pending) < MaxPending
    /\ Len(issued) < MaxImports
    /\ pending' = Append(pending, url)
    /\ issued' = Append(issued, url)
    /\ UNCHANGED <<templateDoc, last, completed, rendered, widgetVars>>

(* An import that adds the elements of the new document to the store. *)
FetchResolveMerge(i) ==
    /\ i \in 1..Len(pending)
    /\ templateDoc' =
            Doc([id \in DOMAIN templateDoc.els \cup DOMAIN Documents(pending[i]) |->
                    IF id \in DOMAIN Documents(pending[i])
                    THEN Documents(pending[i])[id] ELSE templateDoc.els[id]])
    /\ pending' = Remove(pending, i)
    /\ completed' = Append(completed, pending[i])
    /\ UNCHANGED <<last, issued, rendered, widgetVars>>

(* The fetch of the i-th import in flight is fulfilled: the text is read, *)
(* parsed, and the document is assigned to templateDoc.                   *)
FetchResolve(i) ==
    /\ i \in 1..Len(pending)
    /\ templateDoc' = Doc(Documents(pending[i]))
    /\ pending' = Remove(pending, i)
    /\ completed' = Append(completed, pending[i])
    /\ UNCHANGED <<last, issued, rendered, widgetVars>>

(* The fetch is rejected: the catch logs, templateDoc is not assigned. *)
FetchReject(i) ==
    /\ i \in 1..Len(pending)
    /\ pending' = Remove(pending, i)
    /\ UNCHANGED <<templateDoc, last, completed, issued, rendered, widgetVars>>

(* The value of `rendered` after the first pass (line 172). *)
afterLoops(id, data) ==
    LET templateContent == _getTemplate(id) IN
    IF ~templateContent.found \/ templateContent.text = <<>> THEN <<>>
    ELSE processNestedLoops(templateContent.text, data)

Call(id, data, loops, r) ==
    [called |-> TRUE, id |-> id, data |-> data, doc |-> templateDoc,
     loops |-> loops, threw |-> Threw(r), out |-> IF Threw(r) THEN <<>> ELSE r]

RenderTemplate(id, data) ==
    /\ last' = Call(id, data, afterLoops(id, data), renderTemplate(id, data))
    /\ UNCHANGED <<templateDoc, pending, completed, issued, rendered, widgetVars>>

Init ==
    /\ templateDoc = NoDoc
    /\ pending = <<>>
    /\ last = NoCall
    /\ completed = <<>>
    /\ issued = <<>>
    /\ Idle

Next ==
    \/ \E url \in Urls : ImportTemplates(url)
    \/ \E i \in 1..MaxPending : FetchResolve(i)
    \/ \E i \in 1..MaxPending : FetchReject(i)
    \/ \E id \in Ids, data \in StoreData : RenderTemplate(id, data)

Spec == Init /\ [][Next]_vars

(* ------------------------------ claims -------------------------------- *)

(* C1: renderTemplate(id, data) returns the empty string and raises       *)
(* nothing whenever the id cannot be resolved: no document was imported,  *)
(* or the imported document has no element with that id.                  *)
C1_UnresolvableIdGivesEmpty ==
    (last.called /\ (~last.doc.loaded \/ last.id \notin DOMAIN last.doc.els))
        => (~last.threw /\ last.out = <<>>)

C1_Witness_NoDocument == last.called /\ ~last.doc.loaded /\ last.out = <<>>

C1_Witness_MissingId ==
    last.called /\ last.doc.loaded /\ last.id \notin DOMAIN last.doc.els /\ ~last.threw

(* ------------------- render specifications: inputs -------------------- *)

SeqsUpTo(A, n) == UNION {[1..m -> A] : m \in 0..n}

(* The object with the given set of <<key, value>> pairs. *)
ObjOf(pairs) ==
    Obj([key \in {pr[1] : pr \in pairs} |-> (CHOOSE pr \in pairs : pr[1] = key)[2]])

Optional(key, vals) == {{}} \cup {{<<key, v>>} : v \in vals}

Text(a) == <<Txt(a)>>

(* A store holding one template, under the id "t". *)
InitWith(templates) ==
    /\ templateDoc \in {Doc([t |-> tpl]) : tpl \in templates}
    /\ pending = <<>>
    /\ last = NoCall
    /\ completed = <<>>
    /\ issued = <<>>
    /\ Idle

Template == last.doc.els[last.id]

(* Variables at top level. *)
VarAlphabet == {Txt("Hi"), WS, Var(<<"name">>), Var(<<"user", "name">>)}

VarTemplates == SeqsUpTo(VarAlphabet, MaxLen) \ {<<>>}

NameVals == {Str(Text("Ann")), Str(<<>>), Num(0), Num(2), Bool(FALSE), Null}

UserVals == {Obj([name |-> Str(Text("Bob"))]), EmptyObj, Str(Text("Ann")), Obj([name |-> Num(1)])}

VarData == {ObjOf(n \cup u) : n \in Optional("name", NameVals), u \in Optional("user", UserVals)}

NextVars == \E data \in VarData : RenderTemplate("t", data)

SpecVars == InitWith(VarTemplates) /\ [][NextVars]_vars

(* One loop block with text around it. *)
LoopKeys == {<<"items">>}

LoopBodies == SeqsUpTo({Var(<<"name">>), Txt(":"), Txt("x")}, MaxBody)

Pres == {<<>>, Text("A")}

Posts == {<<>>, <<WS, Txt("B")>>}

LoopTemplate(pre, key, body, post) == pre \o <<Open(key)>> \o body \o <<Close(key)>> \o post

LoopTemplates ==
    {LoopTemplate(pre, key, body, post) :
        pre \in Pres, key \in LoopKeys, body \in LoopBodies, post \in Posts}

Elements == {Obj([name |-> Str(Text("a"))]), Obj([name |-> Num(1)]), EmptyObj}

NonArrays == {Num(0), Str(Text("a")), EmptyObj, Obj([name |-> Str(Text("a"))]), Null, Bool(TRUE)}

LoopData ==
    {ObjOf(i \cup n) :
        i \in Optional("items", NonArrays \cup {Arr(a) : a \in SeqsUpTo(Elements, MaxItems)}),
        n \in Optional("name", {Str(Text("R"))})}

NextLoops == \E data \in LoopData : RenderTemplate("t", data)

SpecLoops == InitWith(LoopTemplates) /\ [][NextLoops]_vars

(* A loop nested in a loop (the catalog of the README). *)
NestedTemplate(label, sep) ==
    <<Open(<<"categories">>), Var(<<label>>)>> \o sep
    \o <<Open(<<"items">>), Var(<<"name">>), Txt(","), Close(<<"items">>), Close(<<"categories">>)>>

NestedTemplates == {NestedTemplate(label, sep) : label \in {"name", "title"}, sep \in {<<>>, Text(":")}}

Item(a) == Obj([name |-> Str(Text(a))])

Categories ==
    {Obj([name |-> Str(Text("E")), items |-> Arr(<<Item("x"), Item("y")>>)]),
     Obj([title |-> Str(Text("E")), items |-> Arr(<<Item("x"), Item("y")>>)]),
     Obj([name |-> Str(Text("B")), items |-> Arr(<<Item("z")>>)]),
     Obj([title |-> Str(Text("B")), items |-> Arr(<<Item("z")>>)]),
     Obj([title |-> Str(Text("C")), items |-> Arr(<<>>)]),
     Obj([title |-> Str(Text("D"))])}

NestedData == {Obj([categories |-> Arr(a)]) : a \in SeqsUpTo(Categories, MaxCats)}

NextNested == \E data \in NestedData : RenderTemplate("t", data)

SpecNested == InitWith(NestedTemplates) /\ [][NextNested]_vars

(* One conditional block at top level. *)
CondKeys == {<<"flag">>, <<"document">>}

Thens == {Text("Y"), <<WS, Txt("Y"), WS>>, <<Txt("Y"), WS, Txt("Y")>>}

Elses == {Text("N"), <<WS, Txt("N")>>}

CondTemplate(key, then, hasElse, else) ==
    <<IfOpen("id", key)>> \o then \o (IF hasElse THEN <<ElseTok>> \o else ELSE <<>>) \o <<IfClose>>

CondShapes ==
    {c \in [key : CondKeys, then : Thens, hasElse : BOOLEAN, else : Elses] :
        ~c.hasElse => c.else = Text("N")}

CondTemplates == {CondTemplate(c.key, c.then, c.hasElse, c.else) : c \in CondShapes}

CondVals ==
    {Bool(TRUE), Bool(FALSE), Str(<<>>), Str(Text("a")), Num(0), Num(1), Null,
     Arr(<<>>), EmptyObj, Arr(<<Num(1)>>), Arr(<<Num(0)>>), Arr(<<Item("a")>>), Item("a")}

CondData == {ObjOf(f) : f \in Optional("flag", CondVals)}

NextConds == \E data \in CondData : RenderTemplate("t", data)

SpecConds == InitWith(CondTemplates) /\ [][NextConds]_vars

(* A conditional block inside a branch of a conditional block. *)
InnerIf(iElse) ==
    <<IfOpen("id", <<"b">>), Txt("B")>> \o (IF iElse THEN <<ElseTok, Txt("C")>> ELSE <<>>)
    \o <<IfClose>>

NestedIfShapes ==
    {c \in [pos : {"then", "else"}, iElse : BOOLEAN, oElse : BOOLEAN,
            pre : {<<>>, Text("A")}, post : {<<>>, Text("D")}] :
        c.pos = "else" => c.oElse}

NestedIfTemplate(c) ==
    <<IfOpen("id", <<"a">>)>>
    \o c.pre \o (IF c.pos = "then" THEN InnerIf(c.iElse) ELSE <<>>) \o c.post
    \o (IF c.oElse
        THEN <<ElseTok, Txt("E")>> \o (IF c.pos = "else" THEN InnerIf(c.iElse) ELSE <<>>)
        ELSE <<>>)
    \o <<IfClose>>

NestedIfTemplates == {NestedIfTemplate(c) : c \in NestedIfShapes}

NestedIfData == {Obj([a |-> Bool(x), b |-> Bool(y)]) : x, y \in BOOLEAN}

NextNestedIf == \E data \in NestedIfData : RenderTemplate("t", data)

SpecNestedIf == InitWith(NestedIfTemplates) /\ [][NextNestedIf]_vars

(* Any short text of markers, matched or not, and a sub-conditional       *)
(* around two conditionals.                                               *)
TotalAlphabet ==
    {SubIfOpen("id", <<"s">>), IfOpen("id", <<"a">>), IfClose, SubIfClose, ElseTok,
     SubElseTok, Open(<<"k">>), Close(<<"k">>), Var(<<"k">>), Txt("x")}

Deep(mid) ==
    <<SubIfOpen("id", <<"s">>), IfOpen("id", <<"a">>), IfOpen("id", <<"b">>)>> \o mid
    \o <<IfClose, IfClose, SubIfClose>>

TotalTemplates ==
    (SeqsUpTo(TotalAlphabet, MaxBody) \ {<<>>})
    \cup {Deep(mid) : mid \in {<<>>, <<ElseTok>>, <<SubElseTok>>}}

TotalData ==
    {Obj([s |-> Bool(x), a |-> Bool(y), b |-> Bool(z), k |-> kv]) :
        x, y, z \in BOOLEAN,
        kv \in {Arr(<<Null, Num(1), Str(Text("a")), Arr(<<Num(2)>>)>>), Arr(<<>>)}}

NextTotal == \E data \in TotalData : RenderTemplate("t", data)

SpecTotal == InitWith(TotalTemplates) /\ [][NextTotal]_vars

(* A section of key k holding a well-formed section of another key j. *)
MatchShapes ==
    [a : {Text("A")}, p : {<<>>, Text("P")}, q : {<<>>, Text("Q")},
     body : {Text("x"), <<Var(<<"v">>)>>, <<Var(<<"v">>), Txt(",")>>}]

MatchTemplate(c) ==
    c.a \o <<Open(<<"k">>)>> \o c.p \o <<Open(<<"j">>)>> \o c.body \o <<Close(<<"j">>)>>
    \o c.q \o <<Close(<<"k">>)>>

MatchTemplates == {MatchTemplate(c) : c \in MatchShapes}

Inner(a) == Obj([v |-> Str(Text(a))])

Outers ==
    {Obj([j |-> Arr(<<Inner("1"), Inner("2")>>)]),
     Obj([j |-> Arr(<<>>)]), EmptyObj,
     Obj([v |-> Str(Text("O")), j |-> Arr(<<Inner("4")>>)])}

MatchData ==
    {ObjOf({<<"k", Arr(o)>>} \cup r) :
        o \in SeqsUpTo(Outers, MaxCats), r \in Optional("j", {Arr(<<Inner("9")>>)})}

NextMatch == \E data \in MatchData : RenderTemplate("t", data)

SpecMatch == InitWith(MatchTemplates) /\ [][NextMatch]_vars

(* One {{#if}} or {{#subif}} block whose expression may fail to evaluate. *)
BadShapes ==
    [kind : {"if", "subif"}, form : {"id", "bad"}, key : CondKeys, hasElse : BOOLEAN]

BadTemplate(c) ==
    <<IF c.kind = "if" THEN IfOpen(c.form, c.key) ELSE SubIfOpen(c.form, c.key), Txt("Y")>>
    \o (IF c.hasElse
        THEN <<IF c.kind = "if" THEN ElseTok ELSE SubElseTok, WS, Txt("N")>>
        ELSE <<>>)
    \o <<IF c.kind = "if" THEN IfClose ELSE SubIfClose>>

BadTemplates == {BadTemplate(c) : c \in BadShapes}

BadVals ==
    {Bool(TRUE), Num(0), Item("a"), EmptyObj, Arr(<<>>), Arr(<<Item("a")>>), Arr(<<Num(1)>>)}

BadData == {ObjOf(f) : f \in Optional("flag", BadVals)}

NextBad == \E data \in BadData : RenderTemplate("t", data)

SpecBad == InitWith(BadTemplates) /\ [][NextBad]_vars

(* A loop holding a conditional that holds a nested loop in one branch. *)
DeepLoop == <<Open(<<"j">>), Var(<<"v">>), Txt(","), Close(<<"j">>)>>

DeepShapes ==
    {c \in [kind : {"if", "subif"}, p : {<<>>, Text("P")}, pos : {"then", "else"},
            hasElse : BOOLEAN] :
        c.pos = "else" => c.hasElse}

DeepTemplate(c) ==
    <<Open(<<"g">>)>> \o c.p
    \o <<IF c.kind = "if" THEN IfOpen("id", <<"show">>) ELSE SubIfOpen("id", <<"show">>)>>
    \o (IF c.pos = "then" THEN DeepLoop ELSE Text("T"))
    \o (IF c.hasElse
        THEN <<IF c.kind = "if" THEN ElseTok ELSE SubElseTok>>
             \o (IF c.pos = "else" THEN DeepLoop ELSE Text("E"))
        ELSE <<>>)
    \o <<IF c.kind = "if" THEN IfClose ELSE SubIfClose, Close(<<"g">>)>>

DeepTemplates == {DeepTemplate(c) : c \in DeepShapes}

Groups ==
    {Obj([show |-> Bool(TRUE), j |-> Arr(<<Inner("1"), Inner("2")>>)]),
     Obj([show |-> Bool(FALSE), j |-> Arr(<<Inner("3")>>)]),
     Obj([j |-> Arr(<<Inner("4")>>)]),
     Obj([show |-> Bool(TRUE)]),
     Obj([show |-> Bool(TRUE), v |-> Str(Text("O")), j |-> Arr(<<Inner("5")>>)])}

DeepData == {Obj([g |-> Arr(a)]) : a \in SeqsUpTo(Groups, MaxCats)}

NextDeep == \E data \in DeepData : RenderTemplate("t", data)

SpecDeep == InitWith(DeepTemplates) /\ [][NextDeep]_vars

(* A conditional in the body of a loop nested in a loop. *)
InnerCondShapes == [kind : {"if", "subif"}, p : {<<>>, Text("P")}, hasElse : BOOLEAN]

InnerCondTemplate(c) ==
    <<Open(<<"groups">>), Open(<<"items">>)>> \o c.p
    \o <<IF c.kind = "if" THEN IfOpen("id", <<"ok">>) ELSE SubIfOpen("id", <<"ok">>), Txt("Y")>>
    \o (IF c.hasElse
        THEN <<IF c.kind = "if" THEN ElseTok ELSE SubElseTok, Txt("N")>> ELSE <<>>)
    \o <<IF c.kind = "if" THEN IfClose ELSE SubIfClose, Close(<<"items">>),
         Close(<<"groups">>)>>

InnerCondTemplates == {InnerCondTemplate(c) : c \in InnerCondShapes}

Ok(b) == Obj([ok |-> Bool(b)])

OkGroups ==
    {Obj([items |-> Arr(<<Ok(TRUE)>>)]), Obj([items |-> Arr(<<Ok(TRUE), Ok(FALSE)>>)]),
     Obj([items |-> Arr(<<Ok(FALSE)>>)]),
     Obj([ok |-> Bool(TRUE), items |-> Arr(<<Ok(FALSE)>>)])}

InnerCondData == {Obj([groups |-> Arr(a)]) : a \in SeqsUpTo(OkGroups, MaxCats)}

NextInnerCond == \E data \in InnerCondData : RenderTemplate("t", data)

SpecInnerCond == InitWith(InnerCondTemplates) /\ [][NextInnerCond]_vars

(* An {{#if}} block holding a {{#subif}} block in one branch, and a       *)
(* {{#subif}} block holding an {{#if}} block.                             *)
Opener(kind, key) == IF kind = "if" THEN IfOpen("id", key) ELSE SubIfOpen("id", key)

ElseOf(kind) == IF kind = "if" THEN ElseTok ELSE SubElseTok

CloserOf(kind) == IF kind = "if" THEN IfClose ELSE SubIfClose

Other(kind) == IF kind = "if" THEN "subif" ELSE "if"

MixShapes ==
    {c \in [outer : {"if", "subif"}, pos : {"then", "else"}, iElse : BOOLEAN,
            oElse : BOOLEAN, pre : {<<>>, Text("A")}, post : {<<>>, Text("D")}] :
        c.pos = "else" => c.oElse}

MixInner(c) ==
    c.pre \o <<Opener(Other(c.outer), <<"b">>), Txt("B")>>
    \o (IF c.iElse THEN <<ElseOf(Other(c.outer)), Txt("C")>> ELSE <<>>)
    \o <<CloserOf(Other(c.outer))>> \o c.post

MixTemplate(c) ==
    <<Opener(c.outer, <<"a">>)>>
    \o (IF c.pos = "then" THEN MixInner(c) ELSE Text("T"))
    \o (IF c.oElse
        THEN <<ElseOf(c.outer)>> \o (IF c.pos = "else" THEN MixInner(c) ELSE Text("E"))
        ELSE <<>>)
    \o <<CloserOf(c.outer)>>

MixTemplates == {MixTemplate(c) : c \in MixShapes}

NextMix == \E data \in NestedIfData : RenderTemplate("t", data)

SpecMix == InitWith(MixTemplates) /\ [][NextMix]_vars

(* A loop whose elements hold strings that read as template markup. *)
VerbatimShapes == [p : {<<>>, Text("P")}, sep : {<<>>, Text(",")}]

VerbatimTemplate(c) ==
    c.p \o <<Open(<<"items">>), Var(<<"v">>)>> \o c.sep \o <<Close(<<"items">>)>>

VerbatimTemplates == {VerbatimTemplate(c) : c \in VerbatimShapes}

Payloads ==
    {Text("a"), <<Var(<<"secret">>)>>, <<IfOpen("id", <<"x">>), Txt("A"), IfClose>>,
     <<Open(<<"k">>), Txt("Z"), Close(<<"k">>)>>}

VerbatimData ==
    {ObjOf({<<"items", Arr(a)>>} \cup sec \cup x) :
        a \in SeqsUpTo({Obj([v |-> Str(t)]) : t \in Payloads}, MaxItems),
        sec \in Optional("secret", {Str(Text("S"))}),
        x \in Optional("x", {Bool(TRUE)})}

NextVerbatim == \E data \in VerbatimData : RenderTemplate("t", data)

SpecVerbatim == InitWith(VerbatimTemplates) /\ [][NextVerbatim]_vars

(* Text without any marker. *)
PlainAlphabet == {Txt("Hi"), WS, Prefix}

PlainTemplates == SeqsUpTo(PlainAlphabet, MaxLen)

PlainData == {EmptyObj, Obj([Hi |-> Str(Text("Z"))]), Obj([nedara |-> Num(1), x |-> Null])}

NextPlain == \E data \in PlainData : RenderTemplate("t", data)

SpecPlain == InitWith(PlainTemplates) /\ [][NextPlain]_vars

(* The tag-escape rewrite alone, applied again to its own result. *)
EscapeAlphabet == {Prefix, Txt("x"), WS}

EscapeTexts == SeqsUpTo(EscapeAlphabet, MaxText)

InitEscape ==
    /\ templateDoc = NoDoc
    /\ pending = <<>>
    /\ last = NoCall
    /\ completed = <<>>
    /\ issued = <<>>
    /\ rendered \in {[src |-> x, text |-> x, passes |-> 0] : x \in EscapeTexts}
    /\ widget = NoWidget
    /\ listeners = <<>>
    /\ fired = NoEvent

(* rendered = rendered.replace(/nedara-(\w+)/g, "$1") *)
TagEscape ==
    /\ rendered.passes < MaxPasses
    /\ rendered' = [src |-> rendered.src, text |-> unescapeTags(rendered.text),
                    passes |-> rendered.passes + 1]
    /\ UNCHANGED <<storeVars, widgetVars>>

NextEscape == TagEscape

SpecEscape == InitEscape /\ [][NextEscape]_vars

(* ------------------------------ widgets ------------------------------- *)

(* A key of the events map is its words, as key.split(" ") gives them;    *)
(* an entry is [key, method].  defaultOptions.events (lines 220-222).     *)
DefaultEvents == {[key |-> <<"click", "[data-js-function]">>, method |-> "_fnTrigger"]}

(* Object.assign(defaultOptions.events, options.events): an entry of      *)
(* options replaces the default entry of the same key.                    *)
AssignEvents(base, given) ==
    {e \in base : \A g \in given : g.key # e.key} \cup given

(* const [eventName, selector] = key.split(" ") *)
EventName(key) == key[1]

SubSelector(key) == IF Len(key) >= 2 THEN key[2] ELSE ""

(* this.selector + (selector ? " " + selector : ""), as the pair of its   *)
(* two parts.                                                             *)
FullSelector(w, key) == <<w.selector, SubSelector(key)>>

(* The handlers _bindEvents attaches with $container.on, in some order of *)
(* Object.keys: one new function per entry whose method exists.           *)
RECURSIVE Bindings(_, _)
Bindings(w, entries) ==
    IF entries = {} THEN <<>>
    ELSE LET e == CHOOSE x \in entries : TRUE IN
         (IF e.method \in w.methods
          THEN <<[event |-> EventName(e.key), selector |-> FullSelector(w, e.key),
                  method |-> e.method]>>
          ELSE <<>>)
         \o Bindings(w, entries \ {e})

_bindEvents(w, ls) == ls \o Bindings(w, w.events)

(* $container.off(eventName, selector) for every key: every handler of    *)
(* that event and selector is removed, whoever attached it.               *)
Unbound(w, ls) ==
    SelectSeq(ls, LAMBDA l :
        \A e \in w.events :
            ~(l.event = EventName(e.key) /\ l.selector = FullSelector(w, e.key)))

(* The widgets of this model: their selector, events and methods. *)
WidgetOptions ==
    {[selector |-> ".nav", events |-> ev, methods |-> {"onClick", "onKey"}] :
        ev \in {{}, {[key |-> <<"click", ".btn">>, method |-> "onClick"]},
                {[key |-> <<"click", ".btn">>, method |-> "onClick"],
                 [key |-> <<"keyup">>, method |-> "onKey"]},
                {[key |-> <<"click", ".btn">>, method |-> "absent"]}}}

(* createWidget(options): the widget is assembled and init() binds. *)
CreateWidget(options) ==
    /\ widget.state = "none"
    /\ widget' = [state |-> "live", selector |-> options.selector,
                  events |-> AssignEvents(DefaultEvents, options.events),
                  methods |-> options.methods \cup {"_fnTrigger"}, refreshes |-> 0]
    /\ listeners' = _bindEvents(widget', listeners)
    /\ UNCHANGED <<storeVars, rendered, fired>>

Refresh ==
    /\ widget.state = "live"
    /\ widget.refreshes < MaxRefresh
    /\ widget' = [widget EXCEPT !.refreshes = @ + 1]
    /\ listeners' = _bindEvents(widget, listeners)
    /\ UNCHANGED <<storeVars, rendered, fired>>

Destroy ==
    /\ widget.state = "live"
    /\ widget' = [widget EXCEPT !.state = "destroyed"]
    /\ listeners' = Unbound(widget, listeners)
    /\ UNCHANGED <<storeVars, rendered, fired>>

(* One occurrence of the event of an entry on an element its selector     *)
(* matches: every attached function of that event and selector runs and   *)
(* calls the entry's method.                                              *)
Dispatch(e) ==
    /\ widget.state # "none"
    /\ e \in widget.events
    /\ e.method \in widget.methods
    /\ fired' = [key |-> e.key,
                 calls |-> Cardinality({i \in 1..Len(listeners) :
                              /\ listeners[i].event = EventName(e.key)
                              /\ listeners[i].selector = FullSelector(widget, e.key)
                              /\ listeners[i].method = e.method}),
                 state |-> widget.state, refreshes |-> widget.refreshes]
    /\ UNCHANGED <<storeVars, rendered, widget, listeners>>

InitWidget ==
    /\ templateDoc = NoDoc
    /\ pending = <<>>
    /\ last = NoCall
    /\ completed = <<>>
    /\ issued = <<>>
    /\ Idle

NextWidget ==
    \/ \E options \in WidgetOptions : CreateWidget(options)
    \/ Refresh
    \/ Destroy
    \/ \E e \in widget.events : Dispatch(e)

SpecWidget == InitWidget /\ [][NextWidget]_vars

(* ---------------- what the specification says a render is ------------- *)

(* The path walked key by key through nested objects. *)
RECURSIVE RefWalk(_, _)
RefWalk(ctx, p) ==
    IF p = <<>> THEN [ok |-> TRUE, val |-> ctx]
    ELSE IF ctx.k = "obj" /\ Head(p) \in DOMAIN ctx.v THEN RefWalk(ctx.v[Head(p)], Tail(p))
    ELSE [ok |-> FALSE, val |-> Undefined]

(* The string form of a scalar. *)
RefString(val) ==
    CASE val.k = "str" -> val.v
      [] val.k = "num" -> Text(NumAtom(val.v))
      [] val.k = "bool" -> Text(IF val.v THEN "true" ELSE "false")
      [] val.k = "null" -> Text("null")
      [] val.k = "obj" -> Text("[object Object]")

RefToken(tok, ctx) ==
    IF tok.t = "var" /\ RefWalk(ctx, tok.p).ok THEN RefString(RefWalk(ctx, tok.p).val)
    ELSE <<tok>>

RefSubstitute(x, ctx) == Concat([i \in 1..Len(x) |-> RefToken(x[i], ctx)])

(* C2: at top level every {{path}} whose path resolves in the data is     *)
(* replaced by the string form of the value, and every {{path}} whose     *)
(* path does not resolve stays in the output as it is written; nothing    *)
(* is raised.                                                             *)
C2_TopLevelSubstitution ==
    last.called => (~last.threw /\ last.out = RefSubstitute(Trim(Template), last.data))

C2_Witness ==
    /\ last.called
    /\ Template = <<Txt("Hi"), Var(<<"name">>), Var(<<"user", "name">>)>>
    /\ RefWalk(last.data, <<"name">>).ok
    /\ ~RefWalk(last.data, <<"user", "name">>).ok
    /\ last.out = <<Txt("Hi"), Txt("Ann"), Var(<<"user", "name">>)>>

(* The loop block of the last call: pre, key, body, post, and the array.  *)
LoopCases ==
    {c \in [pre : Pres, key : LoopKeys, body : LoopBodies, post : Posts] :
        last.called /\ Template = LoopTemplate(c.pre, c.key, c.body, c.post)}

ArrayOf(c) == RefWalk(last.data, c.key).val

IsArrayCase(c) == RefWalk(last.data, c.key).ok /\ ArrayOf(c).k = "arr"

(* The body expanded once per element, each time against that element.    *)
RefExpansions(c, ctxOf(_)) ==
    Concat([i \in 1..Len(ArrayOf(c).v) |-> RefSubstitute(c.body, ctxOf(ArrayOf(c).v[i]))])

ElementOnly(c) == c.pre \o RefExpansions(c, LAMBDA e : e) \o c.post

(* C3: a block {{#key}}body{{/key}} whose key resolves to an array of n   *)
(* elements expands to the n expansions of body, the i-th against the     *)
(* i-th element, in array order and with nothing between them; an empty   *)
(* array gives the empty string.  This is the text after the loop pass,   *)
(* and the returned text too when the root data resolves no variable the  *)
(* elements left.                                                         *)
C3_LoopExpansion ==
    \A c \in LoopCases : IsArrayCase(c) =>
        /\ ~last.threw
        /\ last.loops = ElementOnly(c)
        /\ (~RefWalk(last.data, <<"name">>).ok => last.out = ElementOnly(c))
        /\ (ArrayOf(c).v = <<>> => last.out = c.pre \o c.post)

C3_Witness ==
    \E c \in LoopCases :
        /\ IsArrayCase(c) /\ Len(ArrayOf(c).v) = 2
        /\ c.body = <<Var(<<"name">>), Txt(":")>> /\ c.pre = <<>> /\ c.post = <<>>
        /\ last.out = <<Txt("a"), Txt(":"), Txt("1"), Txt(":")>>

(* C4: a block whose key is unresolved, or resolves to a value that is    *)
(* not an array, is replaced with its two markers by the empty string,    *)
(* and the text around it is unchanged.                                   *)
C4_LoopSilentSkip ==
    \A c \in LoopCases : ~IsArrayCase(c) =>
        (~last.threw /\ last.loops = c.pre \o c.post /\ last.out = c.pre \o c.post)

C4_Witness ==
    \E c \in LoopCases :
        /\ RefWalk(last.data, c.key).ok /\ ArrayOf(c).k = "obj"
        /\ c.body # <<>> /\ c.pre # <<>> /\ c.post # <<>>
        /\ last.out = c.pre \o c.post

(* C6, as the specification states it: a {{name}} in a loop body whose    *)
(* name is not on the current element is left literal in the text         *)
(* renderTemplate returns, even when the root data has that name: the     *)
(* returned text is the expansion against the elements alone.             *)
C6_NoFallbackInOutput ==
    \A c \in LoopCases : IsArrayCase(c) => last.out = ElementOnly(c)

(* C6, amended: the loop pass uses the current element only and leaves    *)
(* such a {{name}} literal; the top-level variable pass then replaces it  *)
(* by the root data's value, so that it is literal in the returned text   *)
(* only when the root data does not resolve it either.                    *)
C6_ElementOnlyThenRoot ==
    \A c \in LoopCases : IsArrayCase(c) =>
        /\ last.loops = ElementOnly(c)
        /\ last.out = RefSubstitute(ElementOnly(c), last.data)

C6_Witness ==
    \E c \in LoopCases :
        /\ IsArrayCase(c) /\ ArrayOf(c).v = <<EmptyObj>>
        /\ c.body = <<Var(<<"name">>)>>
        /\ RefWalk(last.data, <<"name">>).ok
        /\ last.loops = c.pre \o <<Var(<<"name">>)>> \o c.post
        /\ last.out = c.pre \o Text("R") \o c.post

(* The nested block of the last call and its outer array. *)
NestedCases ==
    {c \in [label : {"name", "title"}, sep : {<<>>, Text(":")}] :
        last.called /\ Template = NestedTemplate(c.label, c.sep)}

RefInner(cat) ==
    IF RefWalk(cat, <<"items">>).ok /\ cat.v["items"].k = "arr"
    THEN Concat([j \in 1..Len(cat.v["items"].v) |->
            RefSubstitute(<<Var(<<"name">>), Txt(",")>>, cat.v["items"].v[j])])
    ELSE <<>>

RefNested(c, cats) ==
    Concat([i \in 1..Len(cats) |->
        RefSubstitute(<<Var(<<c.label>>)>> \o c.sep, cats[i]) \o RefInner(cats[i])])

(* C7: for an outer array of objects each holding an inner array, the     *)
(* inner body is rendered once per element of the current outer element's *)
(* own inner array, and each variable of the inner body takes its value   *)
(* from that inner element, not from the outer element or a sibling.      *)
C7_NestedLoopScoping ==
    \A c \in NestedCases :
        last.loops = RefNested(c, last.data.v["categories"].v)

(* The conditional block of the last call. *)
CondCases ==
    {c \in CondShapes : last.called /\ Template = CondTemplate(c.key, c.then, c.hasElse, c.else)}

RefChoose(truthy, c) ==
    IF truthy THEN Trim(c.then) ELSE IF c.hasElse THEN Trim(c.else) ELSE <<>>

(* C5: {{#if expr}}T{{else}}E{{/if}} renders as trimmed T when expr       *)
(* evaluates truthy and as trimmed E when it evaluates falsy, without     *)
(* {{else}} as trimmed T or the empty string; a condition naming a key    *)
(* absent from the context counts as falsy.                               *)
C5_ConditionalSelection ==
    \A c \in CondCases :
        last.out = RefChoose(RefWalk(last.data, c.key).ok
                             /\ evaluateExpression("id", c.key, last.data), c)

(* C9: a condition that is a single path resolving to v is falsy exactly  *)
(* when v is the empty string, 0, false, null, an empty array or an empty *)
(* object, and truthy for every other value.                              *)
RefFalsy == {Str(<<>>), Num(0), Bool(FALSE), Null, Arr(<<>>), EmptyObj}

C9_Truthiness ==
    \A c \in CondCases : RefWalk(last.data, c.key).ok =>
        last.out = RefChoose(RefWalk(last.data, c.key).val \notin RefFalsy, c)

(* The nested conditional of the last call and its tree evaluation. *)
NestedIfCases == {c \in NestedIfShapes : last.called /\ Template = NestedIfTemplate(c)}

RefInnerIf(c) ==
    IF last.data.v["b"].v THEN Text("B") ELSE IF c.iElse THEN Text("C") ELSE <<>>

RefNestedIf(c) ==
    IF last.data.v["a"].v
    THEN Trim(c.pre \o (IF c.pos = "then" THEN RefInnerIf(c) ELSE <<>>) \o c.post)
    ELSE IF c.oElse
         THEN Trim(Text("E") \o (IF c.pos = "else" THEN RefInnerIf(c) ELSE <<>>))
         ELSE <<>>

(* C8: for a well-formed {{#if}} block containing another {{#if}} block,  *)
(* the output is the evaluation of the conditional tree for every         *)
(* combination of the two conditions, and no {{#if}}, {{else}} or {{/if}} *)
(* marker is left in it.                                                  *)
C8_NestedConditionals ==
    \A c \in NestedIfCases :
        /\ last.out = RefNestedIf(c)
        /\ \A i \in 1..Len(last.out) : last.out[i].t = "txt"

(* C10: for every template text and every data context renderTemplate     *)
(* returns a string; no exception reaches the caller.                     *)
C10_Totality == last.called => ~last.threw

(* A "nedara-" reached from an earlier "nedara-" through word characters  *)
(* only: the earlier match takes its "nedara" and leaves "-" behind.       *)
Stacked(x) ==
    \E i, j \in 1..Len(x) :
        /\ i < j /\ x[i] = Prefix /\ x[j] = Prefix
        /\ \A n \in (i + 1)..(j - 1) : StartsWord(x[n])

HasEscape(x) == \E i \in 1..(Len(x) - 1) : x[i] = Prefix /\ StartsWord(x[i + 1])

(* C12, as the specification states it: rendering a stored template whose *)
(* text holds no {{...}} marker returns that text unchanged, whatever the *)
(* data.                                                                  *)
C12_RoundTrip == last.called => (~last.threw /\ last.out = Template)

(* C12, amended: such a template is returned without its leading and      *)
(* trailing whitespace, and unchanged otherwise unless it holds a         *)
(* "nedara-" followed by a word character, which the tag-escape pass      *)
(* removes.                                                               *)
C12_RoundTripTrimmed ==
    last.called =>
        /\ ~last.threw
        /\ ~HasEscape(Template) => last.out = Trim(Template)
        /\ HasEscape(Template) =>
                (last.out # Trim(Template) /\ Len(last.out) < Len(Trim(Template)))

C12_Witness ==
    /\ last.called
    /\ Template = <<WS, Txt("Hi"), WS>>
    /\ last.data # EmptyObj
    /\ last.out = <<Txt("Hi")>>

(* The two-key block of the last call. *)
MatchCases == {c \in MatchShapes : last.called /\ Template = MatchTemplate(c)}

RefInnerMatch(c, e) ==
    IF RefWalk(e, <<"j">>).ok /\ e.v["j"].k = "arr"
    THEN Concat([n \in 1..Len(e.v["j"].v) |-> RefSubstitute(c.body, e.v["j"].v[n])])
    ELSE <<>>

RefMatch(c, outer) ==
    c.a \o Concat([i \in 1..Len(outer) |-> c.p \o RefInnerMatch(c, outer[i]) \o c.q])

(* A text with every value of the data replaced by one placeholder: what  *)
(* was expanded how many times, whatever level a value was taken from.    *)
Shape(x) ==
    [i \in 1..Len(x) |->
        IF x[i].t = "txt" /\ x[i].s \in {"1", "2", "3", "4", "5", "9", "O"}
        THEN Txt("#") ELSE x[i]]

(* An outer element that has the name the inner body uses. *)
Collides(outer) == \E i \in 1..Len(outer) : RefWalk(outer[i], <<"v">>).ok

(* C13: an opening {{#k}} is closed only by {{/k}}.  When a section of    *)
(* key k holds a well-formed section of another key j, the outer section  *)
(* runs to its own {{/k}}, the inner section is expanded inside each      *)
(* outer expansion over that element's own array, and no {{#k}}, {{/k}},  *)
(* {{#j}} or {{/j}} is left in the output.                                *)
C13_LoopMarkerMatching ==
    \A c \in MatchCases :
        /\ ~last.threw
        /\ Shape(last.out) = Shape(RefMatch(c, last.data.v["k"].v))
        /\ ~Collides(last.data.v["k"].v) => last.out = RefMatch(c, last.data.v["k"].v)
        /\ \A i \in 1..Len(last.out) : last.out[i].t = "txt"

C13_Witness ==
    \E c \in MatchCases :
        /\ c.a = Text("A") /\ c.p = Text("P") /\ c.q = Text("Q")
        /\ c.body = <<Var(<<"v">>), Txt(",")>>
        /\ Len(last.data.v["k"].v) = 2
        /\ last.out = <<Txt("A"), Txt("P"), Txt("1"), Txt(","), Txt("2"), Txt(","), Txt("Q"),
                        Txt("P"), Txt("Q")>>

(* The block of the last call whose expression may fail. *)
BadCases == {c \in BadShapes : last.called /\ Template = BadTemplate(c)}

(* Values whose text put in place of the identifier is no expression:     *)
(* "[object Object]" for an object, "" for an empty array.                *)
RefUnparsable == {Item("a"), EmptyObj, Arr(<<>>), Arr(<<Item("a")>>)}

(* The expression cannot be evaluated: a dangling operator, a value that  *)
(* leaves no expression, or a token that resolves to nothing.             *)
RefUnevaluable(c, data) ==
    \/ c.form = "bad"
    \/ RefWalk(data, c.key).ok /\ RefWalk(data, c.key).val \in RefUnparsable
    \/ ~RefWalk(data, c.key).ok

(* C14: when the expression of an {{#if}} or {{#subif}} block cannot be   *)
(* evaluated, the evaluator yields false and raises nothing to the        *)
(* caller: the block renders its else branch when it has one and the      *)
(* empty string otherwise.                                                *)
C14_UnevaluableIsFalse ==
    \A c \in BadCases : RefUnevaluable(c, last.data) =>
        (~last.threw /\ last.out = IF c.hasElse THEN Text("N") ELSE <<>>)

(* The loop-conditional-loop template of the last call. *)
DeepCases == {c \in DeepShapes : last.called /\ Template = DeepTemplate(c)}

RefDeepLoop(e) == RefInnerMatch([body |-> <<Var(<<"v">>), Txt(",")>>], e)

RefDeepItem(c, e) ==
    c.p \o (IF RefWalk(e, <<"show">>).ok /\ e.v["show"] = Bool(TRUE)
            THEN (IF c.pos = "then" THEN RefDeepLoop(e) ELSE Text("T"))
            ELSE IF c.hasElse
                 THEN (IF c.pos = "else" THEN RefDeepLoop(e) ELSE Text("E"))
                 ELSE <<>>)

RefDeep(c, outer) == Concat([i \in 1..Len(outer) |-> RefDeepItem(c, outer[i])])

(* C15: in a loop that holds a conditional that holds a nested loop, for  *)
(* every element of the outer array the conditional is decided on that    *)
(* element, the nested loop is expanded over that element's inner array   *)
(* exactly when the chosen branch holds it, and no loop or conditional    *)
(* marker is left in the output.                                          *)
C15_LoopIfLoop ==
    \A c \in DeepCases :
        /\ ~last.threw
        /\ Shape(last.out) = Shape(RefDeep(c, last.data.v["g"].v))
        /\ ~Collides(last.data.v["g"].v) => last.out = RefDeep(c, last.data.v["g"].v)
        /\ \A i \in 1..Len(last.out) : last.out[i].t = "txt"

C15_Witness ==
    \E c \in DeepCases :
        /\ c.kind = "if" /\ c.pos = "then" /\ c.hasElse /\ c.p = Text("P")
        /\ Len(last.data.v["g"].v) = 2
        /\ last.out = <<Txt("P"), Txt("1"), Txt(","), Txt("2"), Txt(","), Txt("P"), Txt("E")>>

(* The store after the imports that completed successfully, in order. *)
RefStore(urls) == IF urls = <<>> THEN NoDoc ELSE Doc(Documents(urls[Len(urls)]))

(* C16: after any sequence of importTemplates calls the store is exactly  *)
(* the document of the most recently completed successful import, null    *)
(* when none succeeded: nothing is merged, a render of an id defined only *)
(* in an earlier document returns "", and an import that fails leaves the *)
(* store as it was.                                                       *)
C16_StoreReplacedWholesale ==
    /\ [](templateDoc = RefStore(completed))
    /\ [][/\ last' # last =>
                /\ last'.doc = RefStore(completed)
                /\ last'.id \notin DOMAIN RefStore(completed).els => last'.out = <<>>
          /\ (Len(pending') < Len(pending) /\ completed' = completed) =>
                templateDoc' = templateDoc]_vars

C16_Witness ==
    /\ completed = <<"a.html", "b.html">>
    /\ last.called /\ last.id = "list"
    /\ last.doc = Doc(Documents("b.html"))
    /\ "list" \in DOMAIN Documents("a.html")
    /\ last.out = <<>> /\ ~last.threw

(* The inner-loop conditional of the last call. *)
InnerCondCases == {c \in InnerCondShapes : last.called /\ Template = InnerCondTemplate(c)}

RefOkItem(c, item) ==
    c.p \o (IF item.v["ok"].v THEN Text("Y") ELSE IF c.hasElse THEN Text("N") ELSE <<>>)

RefOkGroup(c, group) ==
    Concat([n \in 1..Len(group.v["items"].v) |-> RefOkItem(c, group.v["items"].v[n])])

(* C17: an {{#if expr}} or {{#subif expr}} block in the body of an inner  *)
(* loop is evaluated against the inner loop's current element, not the    *)
(* element of the enclosing loop: each item prints Y or N according to    *)
(* its own ok field.                                                      *)
C17_InnerLoopCondition ==
    \A c \in InnerCondCases :
        last.out = Concat([i \in 1..Len(last.data.v["groups"].v) |->
                            RefOkGroup(c, last.data.v["groups"].v[i])])

(* The mixed block of the last call and its tree evaluation. *)
MixCases == {c \in MixShapes : last.called /\ Template = MixTemplate(c)}

RefMixInner(c) ==
    c.pre \o (IF last.data.v["b"].v THEN Text("B") ELSE IF c.iElse THEN Text("C") ELSE <<>>)
    \o c.post

RefMix(c) ==
    IF last.data.v["a"].v
    THEN (IF c.pos = "then" THEN RefMixInner(c) ELSE Text("T"))
    ELSE IF c.oElse
         THEN (IF c.pos = "else" THEN RefMixInner(c) ELSE Text("E"))
         ELSE <<>>

(* C18: for a well-formed {{#if a}} block holding a {{#subif b}} block in *)
(* either branch, and for a {{#subif a}} block holding an {{#if b}}       *)
(* block, the output is the evaluation of the conditional tree for every  *)
(* combination of a and b: an {{else}} never splits a subif block, a      *)
(* {{subelse}} never splits an if block, and no marker is left.           *)
C18_IfSubifNesting ==
    \A c \in MixCases :
        /\ ~last.threw
        /\ last.out = RefMix(c)
        /\ \A i \in 1..Len(last.out) : last.out[i].t = "txt"

C18_Witness ==
    \E c \in MixCases :
        /\ c.outer = "if" /\ c.pos = "else" /\ c.iElse
        /\ c.pre = Text("A") /\ c.post = Text("D")
        /\ ~last.data.v["a"].v /\ ~last.data.v["b"].v
        /\ last.out = <<Txt("A"), Txt("C"), Txt("D")>>

(* The loop of the last call over elements holding markup-like strings. *)
VerbatimCases == {c \in VerbatimShapes : last.called /\ Template = VerbatimTemplate(c)}

RefVerbatim(c, items) ==
    c.p \o Concat([i \in 1..Len(items) |-> items[i].v["v"].v \o c.sep])

(* C19: a string taken from the context and put in place of a variable in *)
(* a loop body is never itself read as template markup by a later pass:   *)
(* an element's field holding {{secret}}, {{#if x}}A{{/if}} or            *)
(* {{#k}}...{{/k}} appears unchanged in the text renderTemplate returns.  *)
C19_DataIsVerbatim ==
    \A c \in VerbatimCases :
        ~last.threw /\ last.out = RefVerbatim(c, last.data.v["items"].v)

(* C20: after createWidget and any number of refresh() calls, one         *)
(* occurrence of an event of the widget's events map invokes its handler  *)
(* exactly once; after destroy() it invokes it zero times.                *)
C20_HandlerRunsOnce ==
    /\ fired.state = "live" => fired.calls = 1
    /\ fired.state = "destroyed" => fired.calls = 0

(* Every import made has completed and none failed. *)
AllImportsSucceeded == pending = <<>> /\ Len(completed) = Len(issued)

(* The documents a store can hold as a whole. *)
WholeStores == {NoDoc} \cup {Doc(Documents(url)) : url \in Urls}

(* C21: when importTemplates(A) is called before importTemplates(B) and   *)
(* both succeed, then once both have completed the store holds B's        *)
(* document, in whatever order their fetches completed; and a call of     *)
(* renderTemplate made between the two completions read a whole store,    *)
(* the previous one or the new one, never a mixture of the two.           *)
C21_LastIssuedWins ==
    /\ (AllImportsSucceeded /\ Len(issued) >= 2) =>
            templateDoc = Doc(Documents(issued[Len(issued)]))
    /\ last.called => last.doc \in WholeStores

====
